---------------------------- MODULE Spec2Model ----------------------------
(***************************************************************************)
(* Model of DiscordHooks/embed.py: the Embed value records, their          *)
(* validating property setters, the dict property and from_dict.           *)
(*                                                                         *)
(* Python values are records tagged by "kind".  A string is represented    *)
(* by its length, the only thing the setters ever inspect.  An object is   *)
(* its class name and the values of its private attributes, keyed by the   *)
(* property name.  A dict is the sequence of its <<key, value>> items in   *)
(* insertion order.  A call returns [err, obj]: err is "ok" or the name of *)
(* the exception raised, and obj is the receiver as the call left it.      *)
(***************************************************************************)
EXTENDS Integers, Sequences, FiniteSets, TLC

VARIABLES obj, last, out, ops

vars == <<obj, last, out, ops>>

---------------------------------------------------------------------------
(* Python values *)

NoneV == [kind |-> "None"]
Unset == [kind |-> "unset"]
StrV(n) == [kind |-> "str", len |-> n]
IntV(n) == [kind |-> "int", val |-> n]
DateTimeV == [kind |-> "datetime", at |-> 0]
DictV(items) == [kind |-> "dict", items |-> items]
ListV(elems) == [kind |-> "list", elems |-> elems]
ObjV(cls, attrs) == [kind |-> "obj", cls |-> cls, attrs |-> attrs]

IsInstance(v, t) ==
    IF v.kind = "obj" THEN v.cls = t ELSE v.kind = t

HasLen(v) == v.kind \in {"str", "list", "dict"}

PyLen(v) ==
    CASE v.kind = "str" -> v.len
      [] v.kind = "list" -> Len(v.elems)
      [] v.kind = "dict" -> Len(v.items)

Keys(d) == {d.items[i][1] : i \in DOMAIN d.items}

Get(d, k) == d.items[CHOOSE i \in DOMAIN d.items : d.items[i][1] = k][2]

Ok(self) == [err |-> "ok", obj |-> self]
Raise(e, self) == [err |-> e, obj |-> self]
Store(self, attr, v) == Ok([self EXCEPT !.attrs[attr] = v])

---------------------------------------------------------------------------
(* class EmbedFooter *)

EmbedFooter_items == <<"text", "icon_url">>

EmbedFooter_text(self, text) ==
    IF text # NoneV /\ ~IsInstance(text, "str") THEN Raise("TypeError", self)
    ELSE IF ~HasLen(text) THEN Raise("TypeError", self)
    ELSE IF PyLen(text) > 2048 THEN Raise("ValueError", self)
    ELSE Store(self, "text", text)

EmbedFooter_icon_url(self, icon_url) ==
    IF icon_url # NoneV /\ ~IsInstance(icon_url, "str") THEN Raise("TypeError", self)
    ELSE Store(self, "icon_url", icon_url)

(* class EmbedImage *)

EmbedImage_items == <<"url">>

EmbedImage_url(self, url) ==
    IF url # NoneV /\ ~IsInstance(url, "str") THEN Raise("TypeError", self)
    ELSE Store(self, "url", url)

(* class EmbedVideo *)

EmbedVideo_items == <<"url", "height", "width">>

EmbedVideo_url(self, url) ==
    IF url # NoneV /\ ~IsInstance(url, "str") THEN Raise("TypeError", self)
    ELSE Store(self, "url", url)

EmbedVideo_height(self, height) ==
    IF height # NoneV /\ ~IsInstance(height, "int") THEN Raise("TypeError", self)
    ELSE Store(self, "height", height)

(* The width setter of EmbedVideo without its isinstance test *)
EmbedVideo_width_untyped(self, width) ==
    Store(self, "width", width)

EmbedVideo_width(self, width) ==
    IF width # NoneV /\ ~IsInstance(width, "int") THEN Raise("TypeError", self)
    ELSE Store(self, "width", width)

(* class EmbedThumbnail *)

EmbedThumbnail_items == <<"url">>

EmbedThumbnail_url(self, url) ==
    IF url # NoneV /\ ~IsInstance(url, "str") THEN Raise("TypeError", self)
    ELSE Store(self, "url", url)

(* class EmbedProvider *)

EmbedProvider_items == <<"name", "url">>

EmbedProvider_name(self, name) ==
    IF name # NoneV /\ ~IsInstance(name, "str") THEN Raise("TypeError", self)
    ELSE Store(self, "name", name)

EmbedProvider_url(self, url) ==
    IF url # NoneV /\ ~IsInstance(url, "str") THEN Raise("TypeError", self)
    ELSE Store(self, "url", url)

(* class EmbedAuthor *)

EmbedAuthor_items == <<"name", "url", "icon_url">>

(* The name setter of EmbedAuthor without its length test *)
EmbedAuthor_name_unchecked(self, name) ==
    IF name # NoneV /\ ~IsInstance(name, "str") THEN Raise("TypeError", self)
    ELSE IF ~HasLen(name) THEN Raise("TypeError", self)
    ELSE Store(self, "name", name)

EmbedAuthor_name(self, name) ==
    IF name # NoneV /\ ~IsInstance(name, "str") THEN Raise("TypeError", self)
    ELSE IF ~HasLen(name) THEN Raise("TypeError", self)
    ELSE IF PyLen(name) > 256 THEN Raise("ValueError", self)
    ELSE Store(self, "name", name)

EmbedAuthor_url(self, url) ==
    IF url # NoneV /\ ~IsInstance(url, "str") THEN Raise("TypeError", self)
    ELSE Store(self, "url", url)

EmbedAuthor_icon_url(self, icon_url) ==
    IF icon_url # NoneV /\ ~IsInstance(icon_url, "str") THEN Raise("TypeError", self)
    ELSE Store(self, "icon_url", icon_url)

(* class EmbedField *)

EmbedField_items == <<"name", "value">>

EmbedField_name(self, name) ==
    IF name # NoneV /\ ~IsInstance(name, "str") THEN Raise("TypeError", self)
    ELSE IF ~HasLen(name) THEN Raise("TypeError", self)
    ELSE IF PyLen(name) > 256 THEN Raise("ValueError", self)
    ELSE Store(self, "name", name)

(* The length test of EmbedField.value written >= instead of > *)
EmbedField_value_offByOne(self, value) ==
    IF value # NoneV /\ ~IsInstance(value, "str") THEN Raise("TypeError", self)
    ELSE IF ~HasLen(value) THEN Raise("TypeError", self)
    ELSE IF PyLen(value) >= 1024 THEN Raise("ValueError", self)
    ELSE Store(self, "value", value)

EmbedField_value(self, value) ==
    IF value # NoneV /\ ~IsInstance(value, "str") THEN Raise("TypeError", self)
    ELSE IF ~HasLen(value) THEN Raise("TypeError", self)
    ELSE IF PyLen(value) > 1024 THEN Raise("ValueError", self)
    ELSE Store(self, "value", value)


(* Calling a class, and from_dict.  SetAttr is the dispatch of an          *)
(* attribute assignment to the property setter of the receiver's class.    *)

RECURSIVE SetAttr(_, _, _)

Items(cls) ==
    CASE cls = "EmbedFooter" -> EmbedFooter_items
      [] cls = "EmbedImage" -> EmbedImage_items
      [] cls = "EmbedVideo" -> EmbedVideo_items
      [] cls = "EmbedThumbnail" -> EmbedThumbnail_items
      [] cls = "EmbedProvider" -> EmbedProvider_items
      [] cls = "EmbedAuthor" -> EmbedAuthor_items
      [] cls = "EmbedField" -> EmbedField_items
      [] cls = "Embed" -> <<"title", "description", "url", "timestamp", "color",
                            "footer", "image", "thumbnail", "video", "provider",
                            "author", "fields">>

ItemSet(cls) == {Items(cls)[i] : i \in DOMAIN Items(cls)}

RECURSIVE InitFrom(_, _, _)

InitFrom(self, kwargs, i) ==
    IF i > Len(Items(self.cls)) THEN Ok(self)
    ELSE LET key == Items(self.cls)[i]
             arg == IF key \in Keys(kwargs) THEN Get(kwargs, key) ELSE NoneV
             r == SetAttr(self, key, arg)
         IN  IF r.err = "ok" THEN InitFrom(r.obj, kwargs, i + 1)
             ELSE Raise(r.err, NoneV)

(* A constructor that does not forward its last keyword argument *)
New_dropsLastKeyword(cls, kwargs) ==
    IF ~(Keys(kwargs) \subseteq ItemSet(cls)) THEN Raise("TypeError", NoneV)
    ELSE InitFrom(ObjV(cls, [a \in ItemSet(cls) |-> Unset]),
                  DictV(SubSeq(kwargs.items, 1, Len(kwargs.items) - 1)), 1)

New(cls, kwargs) ==
    IF ~(Keys(kwargs) \subseteq ItemSet(cls)) THEN Raise("TypeError", NoneV)
    ELSE InitFrom(ObjV(cls, [a \in ItemSet(cls) |-> Unset]), kwargs, 1)

from_dict(cls, d) ==
    IF ~IsInstance(d, "dict") THEN Raise("TypeError", NoneV)
    ELSE New(cls, d)

(* class Embed *)

Embed_title(self, title) ==
    IF title # NoneV /\ ~IsInstance(title, "str") THEN Raise("TypeError", self)
    ELSE IF IsInstance(title, "str") /\ PyLen(title) > 256 THEN Raise("ValueError", self)
    ELSE Store(self, "title", title)

Embed_description(self, description) ==
    IF description # NoneV /\ ~IsInstance(description, "str") THEN Raise("TypeError", self)
    ELSE IF IsInstance(description, "str") /\ PyLen(description) > 2048
         THEN Raise("ValueError", self)
    ELSE Store(self, "description", description)

Embed_url(self, url) ==
    IF url # NoneV /\ ~IsInstance(url, "str") THEN Raise("TypeError", self)
    ELSE Store(self, "url", url)

Embed_timestamp(self, timestamp) ==
    IF timestamp # NoneV /\ ~IsInstance(timestamp, "datetime") THEN Raise("TypeError", self)
    ELSE Store(self, "timestamp", timestamp)

Embed_color(self, color) ==
    IF color # NoneV /\ ~IsInstance(color, "int") THEN Raise("TypeError", self)
    ELSE Store(self, "color", color)

(* The footer setter without its isinstance test *)
Embed_footer_untyped(self, footer) ==
    Store(self, "footer", footer)

Embed_footer(self, footer) ==
    IF footer # NoneV /\ ~IsInstance(footer, "EmbedFooter") THEN Raise("TypeError", self)
    ELSE Store(self, "footer", footer)

Embed_image(self, image) ==
    IF image # NoneV /\ ~IsInstance(image, "EmbedImage") THEN Raise("TypeError", self)
    ELSE Store(self, "image", image)

Embed_thumbnail(self, thumbnail) ==
    IF thumbnail # NoneV /\ ~IsInstance(thumbnail, "EmbedThumbnail")
    THEN Raise("TypeError", self)
    ELSE Store(self, "thumbnail", thumbnail)

Embed_video(self, video) ==
    IF video # NoneV /\ ~IsInstance(video, "EmbedVideo") THEN Raise("TypeError", self)
    ELSE Store(self, "video", video)

Embed_provider(self, provider) ==
    IF provider # NoneV /\ ~IsInstance(provider, "EmbedProvider") THEN Raise("TypeError", self)
    ELSE Store(self, "provider", provider)

Embed_author(self, author) ==
    IF author # NoneV /\ ~IsInstance(author, "EmbedAuthor") THEN Raise("TypeError", self)
    ELSE Store(self, "author", author)

(* The loop of the fields setter inserting at the front instead of appending *)
RECURSIVE FieldsLoop_prepend(_, _, _)

FieldsLoop_prepend(self, elems, i) ==
    IF i > Len(elems) THEN Ok(self)
    ELSE LET field == elems[i]
             prepend(f) == [self EXCEPT !.attrs.fields.elems = <<f>> \o @]
         IN  IF IsInstance(field, "EmbedField")
             THEN FieldsLoop_prepend(prepend(field), elems, i + 1)
             ELSE IF IsInstance(field, "dict")
                  THEN LET r == from_dict("EmbedField", field)
                       IN  IF r.err = "ok"
                           THEN FieldsLoop_prepend(prepend(r.obj), elems, i + 1)
                           ELSE Raise(r.err, self)
             ELSE Raise("TypeError", self)

RECURSIVE FieldsLoop(_, _, _)

FieldsLoop(self, elems, i) ==
    IF i > Len(elems) THEN Ok(self)
    ELSE LET field == elems[i]
             append(f) == [self EXCEPT !.attrs.fields.elems = Append(@, f)]
         IN  IF IsInstance(field, "EmbedField") THEN FieldsLoop(append(field), elems, i + 1)
             ELSE IF IsInstance(field, "dict")
                  THEN LET r == from_dict("EmbedField", field)
                       IN  IF r.err = "ok" THEN FieldsLoop(append(r.obj), elems, i + 1)
                           ELSE Raise(r.err, self)
             ELSE Raise("TypeError", self)

(* The fields setter allowing one element more *)
Embed_fields_limit26(self, fields) ==
    IF fields = NoneV THEN Store(self, "fields", ListV(<< >>))
    ELSE IF ~IsInstance(fields, "list") THEN Raise("TypeError", self)
    ELSE IF PyLen(fields) > 26 THEN Raise("ValueError", self)
    ELSE FieldsLoop([self EXCEPT !.attrs.fields = ListV(<< >>)], fields.elems, 1)

(* The fields setter storing None like every other setter *)
Embed_fields_storesNone(self, fields) ==
    IF fields = NoneV THEN Store(self, "fields", NoneV)
    ELSE IF ~IsInstance(fields, "list") THEN Raise("TypeError", self)
    ELSE IF PyLen(fields) > 25 THEN Raise("ValueError", self)
    ELSE FieldsLoop([self EXCEPT !.attrs.fields = ListV(<< >>)], fields.elems, 1)

Embed_fields(self, fields) ==
    IF fields = NoneV THEN Store(self, "fields", ListV(<< >>))
    ELSE IF ~IsInstance(fields, "list") THEN Raise("TypeError", self)
    ELSE IF PyLen(fields) > 25 THEN Raise("ValueError", self)
    ELSE FieldsLoop([self EXCEPT !.attrs.fields = ListV(<< >>)], fields.elems, 1)

SetAttr(self, attr, v) ==
    CASE self.cls = "EmbedFooter" /\ attr = "text" -> EmbedFooter_text(self, v)
      [] self.cls = "EmbedFooter" /\ attr = "icon_url" -> EmbedFooter_icon_url(self, v)
      [] self.cls = "EmbedImage" /\ attr = "url" -> EmbedImage_url(self, v)
      [] self.cls = "EmbedVideo" /\ attr = "url" -> EmbedVideo_url(self, v)
      [] self.cls = "EmbedVideo" /\ attr = "height" -> EmbedVideo_height(self, v)
      [] self.cls = "EmbedVideo" /\ attr = "width" -> EmbedVideo_width(self, v)
      [] self.cls = "EmbedThumbnail" /\ attr = "url" -> EmbedThumbnail_url(self, v)
      [] self.cls = "EmbedProvider" /\ attr = "name" -> EmbedProvider_name(self, v)
      [] self.cls = "EmbedProvider" /\ attr = "url" -> EmbedProvider_url(self, v)
      [] self.cls = "EmbedAuthor" /\ attr = "name" -> EmbedAuthor_name(self, v)
      [] self.cls = "EmbedAuthor" /\ attr = "url" -> EmbedAuthor_url(self, v)
      [] self.cls = "EmbedAuthor" /\ attr = "icon_url" -> EmbedAuthor_icon_url(self, v)
      [] self.cls = "EmbedField" /\ attr = "name" -> EmbedField_name(self, v)
      [] self.cls = "EmbedField" /\ attr = "value" -> EmbedField_value(self, v)
      [] self.cls = "Embed" /\ attr = "title" -> Embed_title(self, v)
      [] self.cls = "Embed" /\ attr = "description" -> Embed_description(self, v)
      [] self.cls = "Embed" /\ attr = "url" -> Embed_url(self, v)
      [] self.cls = "Embed" /\ attr = "timestamp" -> Embed_timestamp(self, v)
      [] self.cls = "Embed" /\ attr = "color" -> Embed_color(self, v)
      [] self.cls = "Embed" /\ attr = "footer" -> Embed_footer(self, v)
      [] self.cls = "Embed" /\ attr = "image" -> Embed_image(self, v)
      [] self.cls = "Embed" /\ attr = "thumbnail" -> Embed_thumbnail(self, v)
      [] self.cls = "Embed" /\ attr = "video" -> Embed_video(self, v)
      [] self.cls = "Embed" /\ attr = "provider" -> Embed_provider(self, v)
      [] self.cls = "Embed" /\ attr = "author" -> Embed_author(self, v)
      [] self.cls = "Embed" /\ attr = "fields" -> Embed_fields(self, v)

(* BaseSerializable.dict: the items whose value is not None, in __items__ order *)

RECURSIVE DictItems(_, _)

DictItems(self, i) ==
    IF i > Len(Items(self.cls)) THEN << >>
    ELSE LET key == Items(self.cls)[i]
         IN  IF self.attrs[key] # NoneV
             THEN << <<key, self.attrs[key]>> >> \o DictItems(self, i + 1)
             ELSE DictItems(self, i + 1)

(* The dict property without its "is not None" filter *)
BaseSerializable_dict_keepsNone(self) ==
    DictV([i \in DOMAIN Items(self.cls) |->
               <<Items(self.cls)[i], self.attrs[Items(self.cls)[i]]>>])

BaseSerializable_dict(self) == DictV(DictItems(self, 1))

---------------------------------------------------------------------------
(* The limits the property docstrings declare ("max length is N characters",  *)
(* "max length is 25 fields"); 0 stands for no declared limit.                *)

DeclaredMax(cls, attr) ==
    CASE cls = "EmbedFooter" /\ attr = "text" -> 2048
      [] cls = "EmbedAuthor" /\ attr = "name" -> 256
      [] cls = "EmbedField" /\ attr = "name" -> 256
      [] cls = "EmbedField" /\ attr = "value" -> 1024
      [] cls = "Embed" /\ attr = "title" -> 256
      [] cls = "Embed" /\ attr = "description" -> 2048
      [] cls = "Embed" /\ attr = "fields" -> 25
      [] OTHER -> 0

(* The type each property is annotated with *)

DeclaredType(cls, attr) ==
    CASE cls = "EmbedVideo" /\ attr \in {"height", "width"} -> "int"
      [] cls = "Embed" /\ attr = "color" -> "int"
      [] cls = "Embed" /\ attr = "timestamp" -> "datetime"
      [] cls = "Embed" /\ attr = "footer" -> "EmbedFooter"
      [] cls = "Embed" /\ attr = "image" -> "EmbedImage"
      [] cls = "Embed" /\ attr = "thumbnail" -> "EmbedThumbnail"
      [] cls = "Embed" /\ attr = "video" -> "EmbedVideo"
      [] cls = "Embed" /\ attr = "provider" -> "EmbedProvider"
      [] cls = "Embed" /\ attr = "author" -> "EmbedAuthor"
      [] cls = "Embed" /\ attr = "fields" -> "list"
      [] OTHER -> "str"

LeafClasses == {"EmbedFooter", "EmbedImage", "EmbedVideo", "EmbedThumbnail",
                "EmbedProvider", "EmbedAuthor", "EmbedField"}

Classes == LeafClasses \cup {"Embed"}

Parts == {"footer", "image", "thumbnail", "video", "provider", "author"}

---------------------------------------------------------------------------
(* The values the callers of the model pass in *)

MaxOps == 2

Rep(v, n) == [i \in 1..n |-> v]

SampleKw(cls) ==
    CASE cls = "EmbedFooter" -> DictV(<< <<"text", StrV(1)>> >>)
      [] cls = "EmbedImage" -> DictV(<< <<"url", StrV(1)>> >>)
      [] cls = "EmbedVideo" -> DictV(<< <<"url", StrV(1)>>, <<"height", IntV(7)>> >>)
      [] cls = "EmbedThumbnail" -> DictV(<< <<"url", StrV(1)>> >>)
      [] cls = "EmbedProvider" -> DictV(<< <<"name", StrV(1)>> >>)
      [] cls = "EmbedAuthor" -> DictV(<< <<"name", StrV(1)>> >>)
      [] cls = "EmbedField" -> DictV(<< <<"name", StrV(1)>>, <<"value", StrV(1)>> >>)

SampleOf == [cls \in LeafClasses |-> New(cls, SampleKw(cls)).obj]

Sample(cls) == SampleOf[cls]

OtherLeaf(cls) == IF cls = "EmbedImage" THEN "EmbedThumbnail" ELSE "EmbedImage"

FieldDict(n, v) == DictV(<< <<"name", StrV(n)>>, <<"value", StrV(v)>> >>)

FieldElems == {Sample("EmbedField"), FieldDict(256, 1024), IntV(7)}

FieldLists ==
    {ListV(s) : s \in UNION {[1..n -> FieldElems] : n \in 0..2}}
    \cup {ListV(Rep(FieldDict(1, 1), 25)), ListV(Rep(FieldDict(1, 1), 26)),
          ListV(Rep(IntV(7), 26)),
          ListV(<<Sample("EmbedField")>> \o Rep(FieldDict(1, 1), 23) \o <<IntV(7)>>),
          ListV(<<FieldDict(257, 1), IntV(7)>>),
          ListV(<<Sample("EmbedField"), FieldDict(1, 1025)>>),
          ListV(<<DictV(<< <<"name", StrV(1)>> >>)>>),
          ListV(<<DictV(<< <<"bogus", IntV(7)>> >>)>>)}

Args(cls, attr) ==
    LET t == DeclaredType(cls, attr)
        m == DeclaredMax(cls, attr)
    IN  CASE t = "str" /\ m > 0 -> {NoneV, StrV(m), StrV(m + 1), IntV(7)}
          [] t = "str" /\ m = 0 -> {NoneV, StrV(1), IntV(7)}
          [] t = "int" -> {NoneV, IntV(7), IntV(-1), StrV(1)}
          [] t = "datetime" -> {NoneV, DateTimeV, StrV(1)}
          [] t = "list" -> FieldLists \cup {NoneV, IntV(7), SampleKw("EmbedField")}
          [] OTHER -> {NoneV, Sample(t), Sample(OtherLeaf(t)), SampleKw(t)}

(* Keyword arguments: for each parameter either no argument or one of Args *)

Missing == [kind |-> "missing"]

RECURSIVE KwItems(_, _, _)

KwItems(cls, f, i) ==
    IF i > Len(Items(cls)) THEN << >>
    ELSE LET key == Items(cls)[i]
         IN  IF f[key] # Missing THEN << <<key, f[key]>> >> \o KwItems(cls, f, i + 1)
             ELSE KwItems(cls, f, i + 1)

KwInputs(cls) ==
    IF cls = "Embed"
    THEN {DictV(<< >>)} \cup
         {DictV(<< <<a, v>> >>) : <<a, v>> \in
              UNION {{<<b, w>> : w \in Args(cls, b)} : b \in ItemSet(cls)}}
    ELSE {DictV(KwItems(cls, f, 1)) :
              f \in [ItemSet(cls) -> UNION {Args(cls, a) : a \in ItemSet(cls)} \cup {Missing}]}

DictInputs(cls) ==
    KwInputs(cls) \cup {DictV(<< <<"bogus", IntV(1)>> >>), IntV(7), NoneV}

---------------------------------------------------------------------------
(* The state: the object under test, the last operation on it and how it     *)
(* ended, the mapping the last read of the dict property returned, and the  *)
(* number of assignments made to the object, the constructor's keyword     *)
(* arguments included.                                                     *)

NoOp == [op |-> "none", cls |-> "", attr |-> "", part |-> "", idx |-> 0,
         arg |-> NoneV, err |-> "ok", pre |-> NoneV]

Init ==
    /\ obj = NoneV
    /\ last = NoOp
    /\ out = NoneV
    /\ ops = 0

(* x = Cls(...), the arguments passed by keyword *)
Construct(cls, kw) ==
    /\ last.op = "none"
    /\ LET r == New(cls, kw)
       IN  /\ obj' = IF r.err = "ok" THEN r.obj ELSE obj
           /\ last' = [NoOp EXCEPT !.op = "new", !.cls = cls, !.arg = kw, !.err = r.err]
    /\ out' = NoneV
    /\ ops' = IF IsInstance(kw, "dict") THEN PyLen(kw) ELSE 0

(* x = Cls.from_dict(d) *)
FromDict(cls, kw) ==
    /\ last.op = "none"
    /\ LET r == from_dict(cls, kw)
       IN  /\ obj' = IF r.err = "ok" THEN r.obj ELSE obj
           /\ last' = [NoOp EXCEPT !.op = "from_dict", !.cls = cls, !.arg = kw,
                                   !.err = r.err]
    /\ out' = NoneV
    /\ ops' = IF IsInstance(kw, "dict") THEN PyLen(kw) ELSE 0

(* x.attr = v *)
Assign(attr, v) ==
    /\ obj # NoneV
    /\ ops < MaxOps
    /\ LET r == SetAttr(obj, attr, v)
       IN  /\ obj' = r.obj
           /\ last' = [NoOp EXCEPT !.op = "set", !.cls = obj.cls, !.attr = attr,
                                   !.arg = v, !.err = r.err, !.pre = obj]
    /\ out' = NoneV
    /\ ops' = ops + 1

(* x.part.attr = v, for an Embed x holding a leaf record in part *)
AssignPart(part, attr, v) ==
    /\ obj # NoneV
    /\ obj.cls = "Embed"
    /\ obj.attrs[part] # NoneV
    /\ ops < MaxOps
    /\ LET r == SetAttr(obj.attrs[part], attr, v)
       IN  /\ obj' = [obj EXCEPT !.attrs[part] = r.obj]
           /\ last' = [NoOp EXCEPT !.op = "set", !.cls = obj.attrs[part].cls,
                                   !.attr = attr, !.part = part, !.arg = v,
                                   !.err = r.err, !.pre = obj]
    /\ out' = NoneV
    /\ ops' = ops + 1

(* x.fields[i].attr = v, for an Embed x *)
AssignField(i, attr, v) ==
    /\ obj # NoneV
    /\ obj.cls = "Embed"
    /\ i \in DOMAIN obj.attrs.fields.elems
    /\ ops < MaxOps
    /\ LET r == SetAttr(obj.attrs.fields.elems[i], attr, v)
       IN  /\ obj' = [obj EXCEPT !.attrs.fields.elems[i] = r.obj]
           /\ last' = [NoOp EXCEPT !.op = "set", !.cls = "EmbedField", !.attr = attr,
                                   !.part = "fields", !.idx = i, !.arg = v,
                                   !.err = r.err, !.pre = obj]
    /\ out' = NoneV
    /\ ops' = ops + 1

(* m = x.dict *)
ReadDict ==
    /\ obj # NoneV
    /\ out' = BaseSerializable_dict(obj)
    /\ last' = [NoOp EXCEPT !.op = "dict", !.cls = obj.cls]
    /\ UNCHANGED <<obj, ops>>

(* x = type(x).from_dict(x.dict) *)
RoundTrip ==
    /\ obj # NoneV
    /\ LET r == from_dict(obj.cls, BaseSerializable_dict(obj))
       IN  /\ obj' = IF r.err = "ok" THEN r.obj ELSE obj
           /\ last' = [NoOp EXCEPT !.op = "roundtrip", !.cls = obj.cls, !.err = r.err,
                                   !.pre = obj]
    /\ out' = NoneV
    /\ UNCHANGED ops

Properties(x) == IF x = NoneV THEN {} ELSE ItemSet(x.cls)

Next ==
    \/ \E cls \in Classes : \E kw \in KwInputs(cls) : Construct(cls, kw)
    \/ \E cls \in Classes : \E d \in DictInputs(cls) : FromDict(cls, d)
    \/ \E attr \in Properties(obj) : \E v \in Args(obj.cls, attr) : Assign(attr, v)
    \/ \E part \in Parts : \E attr \in ItemSet(DeclaredType("Embed", part)) :
           \E v \in Args(DeclaredType("Embed", part), attr) : AssignPart(part, attr, v)
    \/ \E i \in 1..25 : \E attr \in ItemSet("EmbedField") :
           \E v \in Args("EmbedField", attr) : AssignField(i, attr, v)
    \/ ReadDict
    \/ RoundTrip

Spec == Init /\ [][Next]_vars

---------------------------------------------------------------------------
(* Properties *)

(* The record the last assignment was made to, in the object x *)
Target(x) ==
    IF last.part = "" THEN x
    ELSE IF last.part = "fields" THEN x.attrs.fields.elems[last.idx]
    ELSE x.attrs[last.part]

IsSet == last.op = "set"

IsSetOf(cls, attr) == last.op = "set" /\ last.cls = cls /\ last.attr = attr

(* C1: an assignment that raises leaves every attribute of the record, the   *)
(* assigned one included, with the value it had before the assignment; in   *)
(* particular Embed.fields after a list with an element that is neither an  *)
(* EmbedField nor a dict.                                                   *)
C1_FailedAssignmentChangesNothing ==
    (IsSet /\ last.err # "ok") => obj = last.pre

(* C2: assigning None to any attribute succeeds and the attribute's key is   *)
(* then not in the record's dict; constructing a record with no arguments   *)
(* succeeds.                                                                *)
C2_NoneAlwaysClears ==
    /\ (IsSet /\ last.arg = NoneV) =>
           /\ last.err = "ok"
           /\ last.attr \notin Keys(BaseSerializable_dict(Target(obj)))
    /\ (last.op = "new" /\ last.arg = DictV(<< >>)) => last.err = "ok"

(* C3: the dict of an Embed holds, for each nested part that is set, that    *)
(* part's own dict, for fields the dicts of the elements in order, and no   *)
(* key for a part that is None.                                             *)
C3_DictIsRecursive ==
    (last.op = "dict" /\ last.cls = "Embed") =>
        /\ \A part \in Parts :
               IF obj.attrs[part] = NoneV THEN part \notin Keys(out)
               ELSE /\ part \in Keys(out)
                    /\ Get(out, part) = BaseSerializable_dict(obj.attrs[part])
        /\ "fields" \in Keys(out)
        /\ Get(out, "fields") =
               ListV([i \in DOMAIN obj.attrs.fields.elems |->
                          BaseSerializable_dict(obj.attrs.fields.elems[i])])

(* C4: the dict of a record has as keys exactly the declared attributes      *)
(* whose value is not None, each once and mapped to the attribute's current *)
(* value.                                                                   *)
C4_DictIsTheSetAttributes ==
    last.op = "dict" =>
        /\ out.kind = "dict"
        /\ Keys(out) = {a \in ItemSet(obj.cls) : obj.attrs[a] # NoneV}
        /\ Len(out.items) = Cardinality(Keys(out))
        /\ \A k \in Keys(out) : Get(out, k) = obj.attrs[k] /\ Get(out, k) # NoneV

C4_Witness ==
    /\ last.op = "dict"
    /\ ops >= 1
    /\ \E a, b \in ItemSet(obj.cls) : obj.attrs[a] = NoneV /\ obj.attrs[b] # NoneV

(* C5: for a leaf record x, from_dict(x.dict) succeeds and yields a record   *)
(* with the same value for every declared attribute.                        *)
C5_LeafRoundTrip ==
    (last.op = "roundtrip" /\ last.cls \in LeafClasses) =>
        /\ last.err = "ok"
        /\ obj.cls = last.pre.cls
        /\ \A a \in ItemSet(last.cls) : obj.attrs[a] = last.pre.attrs[a]

C5_Witness ==
    /\ last.op = "roundtrip"
    /\ last.cls \in LeafClasses
    /\ last.err = "ok"
    /\ \E a, b \in ItemSet(last.cls) : last.pre.attrs[a] = NoneV /\ last.pre.attrs[b] # NoneV

(* C6: for each attribute with a maximum length M, assigning a string of     *)
(* length M succeeds and stores it, and assigning a string of length M + 1  *)
(* raises ValueError and does not store it.                                 *)
C6_Limit(cls, attr) ==
    CASE cls = "EmbedFooter" /\ attr = "text" -> 2048
      [] cls = "EmbedAuthor" /\ attr = "name" -> 256
      [] cls = "EmbedField" /\ attr = "name" -> 256
      [] cls = "EmbedField" /\ attr = "value" -> 1024
      [] cls = "Embed" /\ attr = "title" -> 256
      [] cls = "Embed" /\ attr = "description" -> 2048
      [] OTHER -> 0

C6_LengthBoundary ==
    (IsSet /\ C6_Limit(last.cls, last.attr) > 0 /\ last.arg.kind = "str") =>
        LET m == C6_Limit(last.cls, last.attr)
        IN  /\ last.arg.len = m =>
                /\ last.err = "ok"
                /\ Target(obj).attrs[last.attr] = last.arg
            /\ last.arg.len = m + 1 =>
                /\ last.err = "ValueError"
                /\ Target(obj).attrs[last.attr] # last.arg

C6_Witness ==
    /\ IsSetOf("EmbedField", "value")
    /\ last.arg = StrV(1025)
    /\ last.err = "ValueError"

(* A mapping EmbedField.from_dict accepts *)
FieldValid(d) ==
    /\ d.kind = "dict"
    /\ Keys(d) = {"name", "value"}
    /\ Len(d.items) = 2
    /\ Get(d, "name").kind = "str" /\ Get(d, "name").len <= 256
    /\ Get(d, "value").kind = "str" /\ Get(d, "value").len <= 1024

(* C7: assigning to Embed.fields a list of 26 or more Field-valid mappings   *)
(* raises ValueError with fields as it was; a list of exactly 25 succeeds   *)
(* and leaves 25 EmbedField elements.                                       *)
C7_FieldCountBoundary ==
    (/\ IsSetOf("Embed", "fields")
     /\ last.arg.kind = "list"
     /\ \A i \in DOMAIN last.arg.elems : FieldValid(last.arg.elems[i])) =>
        /\ Len(last.arg.elems) >= 26 =>
               /\ last.err = "ValueError"
               /\ obj.attrs.fields = last.pre.attrs.fields
        /\ Len(last.arg.elems) = 25 =>
               /\ last.err = "ok"
               /\ Len(obj.attrs.fields.elems) = 25
               /\ \A i \in 1..25 : IsInstance(obj.attrs.fields.elems[i], "EmbedField")

C7_Witness ==
    /\ IsSetOf("Embed", "fields")
    /\ last.arg.kind = "list"
    /\ Len(last.arg.elems) = 25
    /\ \A i \in DOMAIN last.arg.elems : FieldValid(last.arg.elems[i])
    /\ last.err = "ok"

(* C8: Embed.fields is never None: assigning None, or constructing an Embed  *)
(* without fields, leaves the empty list, and the dict of an Embed with no  *)
(* attribute set is exactly {"fields": []}.                                 *)
C8_NothingSet(x) ==
    /\ x.cls = "Embed"
    /\ \A a \in ItemSet("Embed") \ {"fields"} : x.attrs[a] = NoneV
    /\ x.attrs.fields \in {NoneV, ListV(<< >>)}

C8_FieldsNeverUnset ==
    /\ (IsSetOf("Embed", "fields") /\ last.arg = NoneV) =>
           last.err = "ok" /\ obj.attrs.fields = ListV(<< >>)
    /\ (/\ last.op \in {"new", "from_dict"}
        /\ last.cls = "Embed"
        /\ last.err = "ok"
        /\ "fields" \notin Keys(last.arg)) => obj.attrs.fields = ListV(<< >>)
    /\ (last.op = "dict" /\ C8_NothingSet(obj)) =>
           out = DictV(<< <<"fields", ListV(<< >>)>> >>)

C8_Witness ==
    /\ last.op = "dict"
    /\ C8_NothingSet(obj)
    /\ ops = 0

(* What a successful fields assignment stores for the element e *)
C9_Stored(e) ==
    IF IsInstance(e, "EmbedField") THEN e
    ELSE ObjV("EmbedField", [name |-> Get(e, "name"), value |-> Get(e, "value")])

C9_Neither(e) == ~IsInstance(e, "EmbedField") /\ e.kind # "dict"

C9_OverLong(e) ==
    /\ e.kind = "dict"
    /\ \/ "name" \in Keys(e) /\ Get(e, "name").kind = "str" /\ Get(e, "name").len > 256
       \/ "value" \in Keys(e) /\ Get(e, "value").kind = "str" /\ Get(e, "value").len > 1024

C9_ElementWise ==
    (/\ IsSetOf("Embed", "fields")
     /\ last.arg.kind = "list"
     /\ Len(last.arg.elems) <= 25
     /\ \A i \in DOMAIN last.arg.elems :
            IsInstance(last.arg.elems[i], "EmbedField") \/ FieldValid(last.arg.elems[i])) =>
        /\ last.err = "ok"
        /\ obj.attrs.fields.kind = "list"
        /\ Len(obj.attrs.fields.elems) = Len(last.arg.elems)
        /\ \A i \in DOMAIN last.arg.elems :
               obj.attrs.fields.elems[i] = C9_Stored(last.arg.elems[i])

(* C9 as claimed: a list of at most 25 EmbedFields and Field-valid mappings  *)
(* is stored element by element in order, each mapping converted; and a     *)
(* list with an element that is neither an EmbedField nor a mapping raises  *)
(* TypeError.                                                               *)
C9_AnyBadElementIsTypeError ==
    /\ C9_ElementWise
    /\ (/\ IsSetOf("Embed", "fields")
        /\ last.arg.kind = "list"
        /\ \E i \in DOMAIN last.arg.elems : C9_Neither(last.arg.elems[i])) =>
           last.err = "TypeError"

(* C9 as amended: a list of at most 25 EmbedFields and Field-valid mappings  *)
(* is stored element by element in order, each mapping converted; and a     *)
(* list of at most 25 elements with an element that is neither an           *)
(* EmbedField nor a mapping raises TypeError when no mapping before the     *)
(* first such element has a name over 256 or a value over 1024 characters.  *)
C9_FieldsElementWise ==
    /\ C9_ElementWise
    /\ (/\ IsSetOf("Embed", "fields")
        /\ last.arg.kind = "list"
        /\ Len(last.arg.elems) <= 25
        /\ \E i \in DOMAIN last.arg.elems :
               /\ C9_Neither(last.arg.elems[i])
               /\ \A j \in 1..(i - 1) : ~C9_OverLong(last.arg.elems[j])) =>
           last.err = "TypeError"

C9_Witness ==
    /\ IsSetOf("Embed", "fields")
    /\ last.arg.kind = "list"
    /\ \E i, j \in DOMAIN last.arg.elems :
           IsInstance(last.arg.elems[i], "EmbedField") /\ last.arg.elems[j].kind = "dict"
    /\ last.err = "ok"

(* C10: assigning a value other than None whose type is not the attribute's  *)
(* declared type raises TypeError; so the nested-object setters of Embed    *)
(* take only an instance of the matching leaf class, and fields only a      *)
(* list.                                                                    *)
C10_WrongTypeIsTypeError ==
    /\ (IsSet /\ last.arg # NoneV /\ ~IsInstance(last.arg, DeclaredType(last.cls, last.attr)))
           => last.err = "TypeError"
    /\ (IsSet /\ last.cls = "Embed" /\ last.attr \in Parts /\ last.err = "ok")
           => last.arg = NoneV \/ IsInstance(last.arg, DeclaredType("Embed", last.attr))

C10_Witness ==
    /\ IsSet
    /\ last.cls = "Embed"
    /\ last.attr \in Parts
    /\ last.arg.kind = "dict"
    /\ last.err = "TypeError"

(* A value an attribute may hold: None, or of the declared type and, where   *)
(* a maximum length is declared, within it                                  *)
C11_AttrValid(cls, attr, v) ==
    \/ v = NoneV
    \/ /\ IsInstance(v, DeclaredType(cls, attr))
       /\ C6_Limit(cls, attr) > 0 => v.len <= C6_Limit(cls, attr)

C11_LeafValid(x) ==
    /\ x.kind = "obj"
    /\ x.cls \in LeafClasses
    /\ \A a \in ItemSet(x.cls) : C11_AttrValid(x.cls, a, x.attrs[a])

C11_EmbedValid(x) ==
    /\ \A a \in ItemSet("Embed") \ {"fields"} : C11_AttrValid("Embed", a, x.attrs[a])
    /\ \A part \in Parts : x.attrs[part] # NoneV => C11_LeafValid(x.attrs[part])
    /\ x.attrs.fields.kind = "list"
    /\ Len(x.attrs.fields.elems) <= 25
    /\ \A i \in DOMAIN x.attrs.fields.elems :
           /\ IsInstance(x.attrs.fields.elems[i], "EmbedField")
           /\ C11_LeafValid(x.attrs.fields.elems[i])

(* C11: after construction and any sequence of assignments, successful or    *)
(* failing, on an Embed and on the leaf records it holds, every stored      *)
(* attribute is None or of its declared type and within its maximum length, *)
(* and Embed.fields is a list of at most 25 valid EmbedFields.              *)
C11_AlwaysValid ==
    obj # NoneV =>
        IF obj.cls = "Embed" THEN C11_EmbedValid(obj) ELSE C11_LeafValid(obj)

C11_Witness ==
    /\ IsSet
    /\ last.err # "ok"
    /\ obj.cls = "Embed"
    /\ Len(obj.attrs.fields.elems) >= 1

(* The EmbedVideo records of the state: the object under test, or the one    *)
(* the Embed under test holds                                               *)
C12_Videos ==
    IF obj = NoneV THEN {}
    ELSE IF obj.cls = "EmbedVideo" THEN {obj}
    ELSE IF obj.cls = "Embed" /\ obj.attrs.video # NoneV THEN {obj.attrs.video}
    ELSE {}

C12_Dimensions == {"height", "width"}

(* C12 as claimed: height and width of an EmbedVideo are always None or a    *)
(* non-negative integer, and assigning a negative integer stores no         *)
(* negative value.                                                          *)
C12_DimensionsNeverNegative ==
    \A v \in C12_Videos : \A d \in C12_Dimensions :
        \/ v.attrs[d] = NoneV
        \/ v.attrs[d].kind = "int" /\ v.attrs[d].val >= 0

(* C12 as amended: height and width of an EmbedVideo are always None or an   *)
(* integer of either sign: assigning any integer, a negative one included,  *)
(* succeeds and stores it.                                                  *)
C12_DimensionsAreIntegers ==
    /\ \A v \in C12_Videos : \A d \in C12_Dimensions :
           v.attrs[d] = NoneV \/ v.attrs[d].kind = "int"
    /\ (IsSet /\ last.cls = "EmbedVideo" /\ last.attr \in C12_Dimensions
              /\ last.arg.kind = "int") =>
           /\ last.err = "ok"
           /\ Target(obj).attrs[last.attr] = last.arg

C12_Witness ==
    /\ IsSet
    /\ last.cls = "EmbedVideo"
    /\ last.attr \in C12_Dimensions
    /\ last.arg = IntV(-1)
    /\ last.err = "ok"
    /\ \E v \in C12_Videos : v.attrs[last.attr] = IntV(-1)

=============================================================================
